---------------------------- MODULE Spec2Model ----------------------------
(***************************************************************************)
(* Model of "Frame Extraction/download_vimeo_frames.py": the batch driver  *)
(* batch_process_videos, the per-video worker process_video and the        *)
(* helpers it calls (download_video, capture_random_frames,                *)
(* secure_delete_file), run on a ThreadPoolExecutor and sharing one        *)
(* threading.Lock and one stats dictionary.                                *)
(*                                                                         *)
(* Time is discrete (one Tick = one second).  Only time.sleep and the      *)
(* external calls take time; the statements between the end of the sleep   *)
(* (line 159) and the call of download_video (line 162) take none, so the  *)
(* release of LOCK and the start of the fetch are one step.                *)
(***************************************************************************)
EXTENDS Integers, Sequences, FiniteSets, TLC

\* ----------------------------------------------------------------- bounds
MaxRows == 2
MaxW == 2
MaxFrameCount == 7
MaxCalls == 2

\* ------------------------------------------------------ program constants
RATE_LIMIT_MIN == 3
RATE_LIMIT_MAX == 8
NUM_FRAMES == 5

\* frame counts tried for the loop of capture_random_frames: none, some, all
WrittenCases == {0, 2, NUM_FRAMES}

Rows == 1..MaxRows
UrlKinds == {"nan", "blank", "url"}
Buckets == {"successful", "partial", "failed"}

VARIABLES
    mainpc,         \* position of batch_process_videos
    W,              \* max_workers of the executor
    df,             \* the data frame after head(limit): one url kind per row
    nextRow,        \* next row of df.iterrows() to look at
    pc,             \* position of process_video for each row
    lock,           \* LOCK: 0 when free, else the row whose worker holds it
    remaining,      \* seconds left of the time.sleep of a row's worker
    sinceFetch,     \* seconds since the last call of download_video (saturating)
    minGap,         \* smallest spacing seen between two calls of download_video
    fetchRes,       \* what download_video returned: "none", "path" or "None"
    tempFile,       \* rows whose temp file exists in DOWNLOAD_DIR
    created,        \* rows for which the fetch put a file on disk
    sampleRes,      \* how capture_random_frames ended
    written,        \* frames written by capture_random_frames
    framesSuccess,  \* the value capture_random_frames returned
    cleanups,       \* calls of secure_delete_file per row
    raised,         \* rows whose try body raised an Exception
    pending,        \* bucket the worker is about to increment
    tmp,            \* value read by the += in progress
    stats,          \* the stats dictionary
    counted,        \* buckets each row has incremented, in order
    report,         \* the summary that was logged, or "none"
    fetches,        \* calls of download_video per row
    queuedAtInterrupt, \* rows still queued when the interrupt arrived
    frameCount,     \* capture_random_frames: frame_count of the opened media
    numFrames,      \* capture_random_frames: num_frames
    frameIndices,   \* capture_random_frames: frame_indices, or <<>>
    delRets,        \* values returned by repeated calls of secure_delete_file
    delRaised       \* whether a call of secure_delete_file raised

vars == <<mainpc, W, df, nextRow, pc, lock, remaining, sinceFetch, minGap,
          fetchRes, tempFile, created, sampleRes, written, framesSuccess,
          cleanups, raised, pending, tmp, stats, counted, report, fetches,
          queuedAtInterrupt, frameCount, numFrames, frameIndices, delRets,
          delRaised>>

itemVars == <<fetchRes, tempFile, created, sampleRes, written, framesSuccess,
              cleanups, raised>>
timeVars == <<remaining, sinceFetch, minGap>>
mainVars == <<mainpc, W, df, nextRow, report>>
histVars == <<fetches, queuedAtInterrupt>>
auxVars == <<frameCount, numFrames, frameIndices, delRets, delRaised>>

\* ---------------------------------------------------------------- helpers
Min(a, b) == IF a < b THEN a ELSE b

\* df.head(limit) under "if limit:" (None and 0 keep every row)
Head_(csv, limit) ==
    IF limit = 0 THEN csv ELSE SubSeq(csv, 1, Min(limit, Len(csv)))

\* the filter of the submit comprehension: not isna and strip() != ""
HasUrl(kind) == kind # "nan" /\ kind # "blank"

\* rows handed to executor.submit so far
Dispatched == {i \in Rows : pc[i] \notin {"absent", "skipped"}}

ActivePcs == {"rateLock", "sleeping", "fetch", "sample", "cleanup",
              "incLock", "incWrite"}
\* rows a worker thread is running process_video for
Active == {i \in Rows : pc[i] \in ActivePcs}

\* threading.Lock.acquire: blocks until the lock is free
CanAcquireBroken(l) == TRUE
CanAcquire(l) == l = 0

\* a worker thread of the pool is idle (or may still be created)
SlotFreeBroken(active, w) == active <= w
SlotFree(active, w) == active < w

\* random.uniform(RATE_LIMIT_DELAY[0], RATE_LIMIT_DELAY[1]), in whole seconds
DelayRangeBroken == 0..RATE_LIMIT_MAX
DelayRange == RATE_LIMIT_MIN..RATE_LIMIT_MAX

\* download_video: the path only if exit status 0 and the file exists
FetchValue(rc, exists) == IF rc = "zero" /\ exists THEN "path" ELSE "None"

\* the with block ends: LOCK is released
ReleasedLockBroken(i) == i
ReleasedLock(i) == 0

\* time.sleep(delay) returns once the delay has passed
SleepOverBroken(r) == TRUE
SleepOver(r) == r = 0

\* the bucket the except handler of process_video increments
ExceptBucketBroken == "partial"
ExceptBucket == "failed"

\* the two returns before any work: only a loaded, validated manifest is
\* submitted
SubmitEnabledBroken(m) == m \in {"submit", "aborted"}
SubmitEnabled(m) == m = "submit"

\* secure_delete_file(path): remove the file if it exists; any error of
\* os.remove is caught, logged and answered with False
SecureDeleteBroken(exists, removeOk) ==
    IF exists /\ removeOk
      THEN [ret |-> TRUE, exists |-> FALSE, raises |-> FALSE]
      ELSE [ret |-> FALSE, exists |-> exists, raises |-> TRUE]
SecureDelete(exists, removeOk) ==
    IF exists
      THEN IF removeOk
             THEN [ret |-> TRUE, exists |-> FALSE, raises |-> FALSE]
             ELSE [ret |-> FALSE, exists |-> TRUE, raises |-> FALSE]
      ELSE [ret |-> FALSE, exists |-> FALSE, raises |-> FALSE]

\* the if/else of the stats update
ResultBucket(ok) == IF ok THEN "successful" ELSE "partial"

\* ------------------------------------------------------------------- Init
Init ==
    /\ mainpc = "start"
    /\ W \in 1..MaxW
    /\ df = <<>>
    /\ nextRow = 1
    /\ pc = [i \in Rows |-> "absent"]
    /\ lock = 0
    /\ remaining = [i \in Rows |-> 0]
    /\ sinceFetch = RATE_LIMIT_MIN
    /\ minGap = RATE_LIMIT_MIN
    /\ fetchRes = [i \in Rows |-> "none"]
    /\ tempFile = {}
    /\ created = {}
    /\ sampleRes = [i \in Rows |-> "none"]
    /\ written = [i \in Rows |-> 0]
    /\ framesSuccess = [i \in Rows |-> FALSE]
    /\ cleanups = [i \in Rows |-> 0]
    /\ raised = {}
    /\ pending = [i \in Rows |-> "none"]
    /\ tmp = [i \in Rows |-> 0]
    /\ stats = <<>>
    /\ counted = [i \in Rows |-> <<>>]
    /\ report = "none"
    /\ fetches = [i \in Rows |-> 0]
    /\ queuedAtInterrupt = {}
    /\ frameCount = 0
    /\ numFrames = 0
    /\ frameIndices = <<>>
    /\ delRets = [i \in Rows |-> <<>>]
    /\ delRaised = FALSE

\* ------------------------------------------------- batch_process_videos
\* read_csv fails, or a required column is missing: return before any work
LoadFail ==
    /\ mainpc = "start"
    /\ mainpc' = "aborted"
    /\ UNCHANGED <<W, df, nextRow, report, pc, lock, timeVars, itemVars,
                   pending, tmp, stats, counted,
                   histVars, auxVars>>

\* read_csv, the column check, head(limit) and the creation of stats
Load ==
    /\ mainpc = "start"
    /\ \E n \in 0..MaxRows, limit \in 0..MaxRows :
         \E csv \in [1..n -> UrlKinds] :
            /\ df' = Head_(csv, limit)
            /\ stats' = [total |-> Len(Head_(csv, limit)), successful |-> 0,
                         partial |-> 0, failed |-> 0]
    /\ mainpc' = "submit"
    /\ UNCHANGED <<W, nextRow, report, pc, lock, timeVars, itemVars,
                   pending, tmp, counted,
                   histVars, auxVars>>

\* one iteration of the submit comprehension
Submit ==
    /\ SubmitEnabled(mainpc)
    /\ nextRow <= Len(df)
    /\ pc' = [pc EXCEPT ![nextRow] =
                 IF HasUrl(df[nextRow]) THEN "queued" ELSE "skipped"]
    /\ nextRow' = nextRow + 1
    /\ UNCHANGED <<mainpc, W, df, report, lock, timeVars, itemVars,
                   pending, tmp, stats, counted,
                   histVars, auxVars>>

\* the comprehension is exhausted: enter the as_completed loop
SubmitDone ==
    /\ SubmitEnabled(mainpc)
    /\ nextRow > Len(df)
    /\ mainpc' = "wait"
    /\ UNCHANGED <<W, df, nextRow, report, pc, lock, timeVars, itemVars,
                   pending, tmp, stats, counted,
                   histVars, auxVars>>

\* every submitted call of process_video has returned
AllTerminalBroken == \E i \in Rows : pc[i] = "done"
AllTerminal == \A i \in 1..Len(df) : pc[i] \in {"skipped", "done"}

\* as_completed has yielded every future and the executor has shut down
Drain ==
    /\ mainpc = "wait"
    /\ AllTerminal
    /\ mainpc' = "drained"
    /\ UNCHANGED <<W, df, nextRow, report, pc, lock, timeVars, itemVars,
                   pending, tmp, stats, counted,
                   histVars, auxVars>>

\* KeyboardInterrupt reaches the main thread inside as_completed: it leaves
\* the loop and enters the executor's __exit__, shutdown(wait=True), which
\* cancels nothing
Interrupt ==
    /\ mainpc = "wait"
    /\ mainpc' = "interrupted"
    /\ queuedAtInterrupt' = {i \in Rows : pc[i] = "queued"}
    /\ UNCHANGED <<W, df, nextRow, report, pc, lock, timeVars, itemVars,
                   pending, tmp, stats, counted, fetches, auxVars>>

\* shutdown(wait=True) has joined the workers: the interrupt propagates out
\* of batch_process_videos, past the summary
InterruptExit ==
    /\ mainpc = "interrupted"
    /\ AllTerminal
    /\ mainpc' = "exited"
    /\ UNCHANGED <<W, df, nextRow, report, pc, lock, timeVars, itemVars,
                   pending, tmp, stats, counted, histVars, auxVars>>

\* the summary: a read of stats, logged
Summary ==
    /\ mainpc = "drained"
    /\ report' = stats
    /\ mainpc' = "finished"
    /\ UNCHANGED <<W, df, nextRow, pc, lock, timeVars, itemVars,
                   pending, tmp, stats, counted,
                   histVars, auxVars>>

\* ---------------------------------------------------- the executor
\* an idle worker takes the oldest queued call of process_video
Start(i) ==
    /\ pc[i] = "queued"
    /\ \A j \in Rows : j < i => pc[j] # "queued"
    /\ SlotFree(Cardinality(Active), W)
    /\ pc' = [pc EXCEPT ![i] = "rateLock"]
    /\ UNCHANGED <<mainVars, lock, timeVars, itemVars, pending, tmp, stats,
                   counted,
                   histVars, auxVars>>

\* ----------------------------------------------------- process_video
\* with LOCK: delay = random.uniform(...); time.sleep(delay) begins
RateAcquire(i) ==
    /\ pc[i] = "rateLock"
    /\ CanAcquire(lock)
    /\ lock' = i
    /\ \E d \in DelayRange : remaining' = [remaining EXCEPT ![i] = d]
    /\ pc' = [pc EXCEPT ![i] = "sleeping"]
    /\ UNCHANGED <<mainVars, sinceFetch, minGap, itemVars, pending, tmp,
                   stats, counted,
                   histVars, auxVars>>

\* one second passes; a sleep that has run out ends before time goes on
Tick ==
    /\ \E i \in Rows : pc[i] \in ActivePcs
    /\ \A i \in Rows : pc[i] = "sleeping" => remaining[i] > 0
    /\ remaining' = [i \in Rows |->
                        IF pc[i] = "sleeping" THEN remaining[i] - 1
                        ELSE remaining[i]]
    /\ sinceFetch' = Min(sinceFetch + 1, RATE_LIMIT_MIN)
    /\ UNCHANGED <<mainVars, pc, lock, minGap, itemVars, pending, tmp, stats,
                   counted,
                   histVars, auxVars>>

\* the sleep ends, LOCK is released and download_video is called
WakeAndFetch(i) ==
    /\ pc[i] = "sleeping"
    /\ SleepOver(remaining[i])
    /\ lock' = ReleasedLock(i)
    /\ minGap' = Min(minGap, sinceFetch)
    /\ sinceFetch' = 0
    /\ fetches' = [fetches EXCEPT ![i] = fetches[i] + 1]
    /\ pc' = [pc EXCEPT ![i] = "fetch"]
    /\ UNCHANGED <<mainVars, remaining, itemVars, pending, tmp, stats,
                   counted, queuedAtInterrupt, auxVars>>

\* download_video returns; on None the worker goes to count a failure
FetchReturn(i) ==
    /\ pc[i] = "fetch"
    /\ \E rc \in {"zero", "nonzero", "timeout", "exception"},
          exists \in BOOLEAN :
         /\ rc = "exception" => ~exists
         /\ fetchRes' = [fetchRes EXCEPT ![i] = FetchValue(rc, exists)]
         /\ tempFile' = IF exists THEN tempFile \cup {i} ELSE tempFile
         /\ created' = IF exists THEN created \cup {i} ELSE created
         /\ IF FetchValue(rc, exists) = "None"
              THEN /\ pc' = [pc EXCEPT ![i] = "incLock"]
                   /\ pending' = [pending EXCEPT ![i] = "failed"]
              ELSE /\ pc' = [pc EXCEPT ![i] = "sample"]
                   /\ UNCHANGED pending
    /\ UNCHANGED <<mainVars, lock, timeVars, sampleRes, written,
                   framesSuccess, cleanups, raised, tmp, stats, counted,
                   histVars, auxVars>>

\* capture_random_frames: False if the file does not open, the frame count
\* is not positive or something raises; True once the loop has run,
\* however many of the reads succeeded
Capture(i) ==
    /\ pc[i] = "sample"
    /\ \E how \in {"notOpened", "badCount", "raised", "ran"},
          k \in WrittenCases :
         /\ how \in {"notOpened", "badCount"} => k = 0
         /\ how = "raised" => k < NUM_FRAMES
         /\ sampleRes' = [sampleRes EXCEPT ![i] = how]
         /\ written' = [written EXCEPT ![i] = k]
         /\ framesSuccess' = [framesSuccess EXCEPT ![i] = (how = "ran")]
    /\ pc' = [pc EXCEPT ![i] = "cleanup"]
    /\ UNCHANGED <<mainVars, lock, timeVars, fetchRes, tempFile, created,
                   cleanups, raised, pending, tmp, stats, counted,
                   histVars, auxVars>>

\* secure_delete_file, then the choice of the bucket; an error of
\* os.remove is logged and swallowed and leaves the file
Cleanup(i) ==
    /\ pc[i] = "cleanup"
    /\ cleanups' = [cleanups EXCEPT ![i] = cleanups[i] + 1]
    /\ \E removeOk \in BOOLEAN :
         LET r == SecureDelete(i \in tempFile, removeOk) IN
           /\ tempFile' = IF r.exists THEN tempFile \cup {i}
                                      ELSE tempFile \ {i}
           /\ raised' = IF r.raises THEN raised \cup {i} ELSE raised
           /\ pending' = [pending EXCEPT ![i] =
                             IF r.raises THEN ExceptBucket
                             ELSE ResultBucket(framesSuccess[i])]
    /\ pc' = [pc EXCEPT ![i] = "incLock"]
    /\ UNCHANGED <<mainVars, lock, timeVars, fetchRes, created, sampleRes,
                   written, framesSuccess, tmp, stats, counted,
                   histVars, auxVars>>

\* an Exception escapes a statement of the try body: the handler logs it
\* and goes to count a failure
Raise(i) ==
    /\ pc[i] \in {"fetch", "sample", "cleanup"}
    /\ raised' = raised \cup {i}
    /\ pending' = [pending EXCEPT ![i] = ExceptBucket]
    /\ pc' = [pc EXCEPT ![i] = "incLock"]
    /\ UNCHANGED <<mainVars, lock, timeVars, fetchRes, tempFile, created,
                   sampleRes, written, framesSuccess, cleanups, tmp, stats,
                   counted,
                   histVars, auxVars>>

\* with LOCK: the += reads the counter
IncBegin(i) ==
    /\ pc[i] = "incLock"
    /\ CanAcquire(lock)
    /\ lock' = i
    /\ tmp' = [tmp EXCEPT ![i] = stats[pending[i]]]
    /\ pc' = [pc EXCEPT ![i] = "incWrite"]
    /\ UNCHANGED <<mainVars, timeVars, itemVars, pending, stats, counted,
                   histVars, auxVars>>

\* the += stores the sum, LOCK is released and process_video returns
IncEnd(i) ==
    /\ pc[i] = "incWrite"
    /\ stats' = [stats EXCEPT ![pending[i]] = tmp[i] + 1]
    /\ counted' = [counted EXCEPT ![i] = Append(counted[i], pending[i])]
    /\ lock' = ReleasedLock(i)
    /\ pc' = [pc EXCEPT ![i] = "done"]
    /\ UNCHANGED <<mainVars, timeVars, itemVars, pending, tmp,
                   histVars, auxVars>>

\* ------------------------------------------------------------------- Next
Next ==
    \/ LoadFail
    \/ Load
    \/ Submit
    \/ SubmitDone
    \/ Drain
    \/ Interrupt
    \/ InterruptExit
    \/ Summary
    \/ Tick
    \/ \E i \in Rows : Start(i)
    \/ \E i \in Rows : RateAcquire(i)
    \/ \E i \in Rows : WakeAndFetch(i)
    \/ \E i \in Rows : FetchReturn(i)
    \/ \E i \in Rows : Capture(i)
    \/ \E i \in Rows : Cleanup(i)
    \/ \E i \in Rows : Raise(i)
    \/ \E i \in Rows : IncBegin(i)
    \/ \E i \in Rows : IncEnd(i)

Spec == Init /\ [][Next]_vars

\* the steps of the program and of the calls it waits for: every step but
\* the operator's interrupt
Work ==
    \/ LoadFail
    \/ Load
    \/ Submit
    \/ SubmitDone
    \/ Drain
    \/ InterruptExit
    \/ Summary
    \/ Tick
    \/ \E i \in Rows : Start(i)
    \/ \E i \in Rows : RateAcquire(i)
    \/ \E i \in Rows : WakeAndFetch(i)
    \/ \E i \in Rows : FetchReturn(i)
    \/ \E i \in Rows : Capture(i)
    \/ \E i \in Rows : Cleanup(i)
    \/ \E i \in Rows : Raise(i)
    \/ \E i \in Rows : IncBegin(i)
    \/ \E i \in Rows : IncEnd(i)

\* threads are scheduled, time passes and external calls return: as long as
\* some step of the program can be taken, one eventually is
FairSpec == Init /\ [][Next]_vars /\ WF_vars(Work)

\* ----------------------------------- capture_random_frames, on its own
\* the state every variable of the batch run has before the run
Idle ==
    /\ W = 1
    /\ df = <<>>
    /\ nextRow = 1
    /\ pc = [i \in Rows |-> "absent"]
    /\ lock = 0
    /\ remaining = [i \in Rows |-> 0]
    /\ sinceFetch = RATE_LIMIT_MIN
    /\ minGap = RATE_LIMIT_MIN
    /\ fetchRes = [i \in Rows |-> "none"]
    /\ created = {}
    /\ sampleRes = [i \in Rows |-> "none"]
    /\ written = [i \in Rows |-> 0]
    /\ framesSuccess = [i \in Rows |-> FALSE]
    /\ cleanups = [i \in Rows |-> 0]
    /\ raised = {}
    /\ pending = [i \in Rows |-> "none"]
    /\ tmp = [i \in Rows |-> 0]
    /\ report = "none"
    /\ fetches = [i \in Rows |-> 0]
    /\ queuedAtInterrupt = {}

idleVars == <<W, df, nextRow, pc, lock, timeVars, fetchRes, created,
              sampleRes, written, framesSuccess, cleanups, raised, pending,
              tmp, report, histVars>>

\* [int(i * frame_count / num_frames) for i in range(num_frames)]
EvenIndicesBroken(F, N) == [k \in 1..N |-> (k * F) \div N]
EvenIndices(F, N) == [k \in 1..N |-> ((k - 1) * F) \div N]

\* sorted(sample): the elements of a set of frame numbers in ascending order
Sorted(S) ==
    CHOOSE q \in [1..Cardinality(S) -> S] :
        \A a, b \in 1..Cardinality(S) : a < b => q[a] < q[b]

\* the media has been opened; its frame count and the requested number
FrameInit ==
    /\ Idle
    /\ mainpc = "capture"
    /\ frameCount \in 0..MaxFrameCount
    /\ numFrames \in 1..NUM_FRAMES
    /\ frameIndices = <<>>
    /\ tempFile = {}
    /\ stats = <<>>
    /\ counted = [i \in Rows |-> <<>>]
    /\ delRets = [i \in Rows |-> <<>>]
    /\ delRaised = FALSE

\* frame_count <= 0: log, release, return False
RejectFrames ==
    /\ mainpc = "capture"
    /\ frameCount <= 0
    /\ mainpc' = "rejected"
    /\ UNCHANGED <<idleVars, auxVars, tempFile, stats, counted>>

\* the choice of frame_indices: evenly spaced when the media is shorter
\* than the request, else a sorted random sample without replacement
SelectFrames ==
    /\ mainpc = "capture"
    /\ frameCount > 0
    /\ IF frameCount < numFrames
         THEN frameIndices' = EvenIndices(frameCount, numFrames)
         ELSE \E S \in SUBSET (0..(frameCount - 1)) :
                 /\ Cardinality(S) = numFrames
                 /\ frameIndices' = Sorted(S)
    /\ mainpc' = "captured"
    /\ UNCHANGED <<idleVars, frameCount, numFrames, delRets, delRaised,
                   tempFile, stats, counted>>

FrameNext == RejectFrames \/ SelectFrames

FrameSpec == FrameInit /\ [][FrameNext]_vars

\* -------------------------------------- secure_delete_file, on its own
\* rows that have been counted, each with or without its temp file on disk
DeleteInit ==
    /\ Idle
    /\ mainpc = "delete"
    /\ tempFile \in SUBSET Rows
    /\ counted \in [Rows -> {<<b>> : b \in Buckets}]
    /\ stats = [b \in Buckets \cup {"total"} |->
                  IF b = "total" THEN MaxRows
                  ELSE Cardinality({i \in Rows : counted[i] = <<b>>})]
    /\ frameCount = 0
    /\ numFrames = 0
    /\ frameIndices = <<>>
    /\ delRets = [i \in Rows |-> <<>>]
    /\ delRaised = FALSE

\* one more call of secure_delete_file on the temp path of row i
DeleteCall(i) ==
    /\ mainpc = "delete"
    /\ Len(delRets[i]) < MaxCalls
    /\ \E removeOk \in BOOLEAN :
         LET r == SecureDelete(i \in tempFile, removeOk) IN
           /\ tempFile' = IF r.exists THEN tempFile \cup {i}
                                      ELSE tempFile \ {i}
           /\ delRets' = [delRets EXCEPT ![i] = Append(delRets[i], r.ret)]
           /\ delRaised' = (delRaised \/ r.raises)
    /\ UNCHANGED <<idleVars, mainpc, frameCount, numFrames, frameIndices,
                   stats, counted>>

DeleteNext == \E i \in Rows : DeleteCall(i)

DeleteSpec == DeleteInit /\ [][DeleteNext]_vars

\* ------------------------------------------------------------- the types
TypeOK ==
    /\ mainpc \in {"start", "aborted", "submit", "wait", "drained", "finished",
                  "interrupted", "exited", "capture", "captured",
                  "rejected", "delete"}
    /\ W \in 1..MaxW
    /\ Len(df) <= MaxRows
    /\ pc \in [Rows -> {"absent", "skipped", "queued", "done"} \cup ActivePcs]
    /\ lock \in 0..MaxRows
    /\ minGap \in 0..RATE_LIMIT_MIN
    /\ sinceFetch \in 0..RATE_LIMIT_MIN

Drained == mainpc \in {"drained", "finished"}


\* ---------------------------------------------------------------- claims
Tally == stats.successful + stats.partial + stats.failed

\* C1: once the pool has drained, successful + partial + failed equals the
\* number of rows submitted to the pool, and every submitted row has
\* incremented exactly one bucket exactly once (and never more than one
\* at any time before).
C1_TallyEqualsDispatched ==
    /\ \A i \in Rows : Len(counted[i]) <= 1
    /\ Drained =>
         /\ Tally = Cardinality(Dispatched)
         /\ \A i \in Dispatched : Len(counted[i]) = 1
         /\ \A b \in Buckets :
               stats[b] = Cardinality({i \in Dispatched : counted[i] = <<b>>})

\* a drained run of at least two submitted rows that ended in different buckets
C1_Witness ==
    /\ Drained
    /\ Cardinality(Dispatched) >= 2
    /\ stats.failed >= 1
    /\ stats.successful + stats.partial >= 1

\* the bucket that follows from the results the row's calls returned
BucketOfResults(i) ==
    IF i \in raised \/ fetchRes[i] = "None" THEN "failed"
    ELSE IF framesSuccess[i] THEN "successful" ELSE "partial"

\* C2: the final stats are a function of the per-row fetch and sampling
\* results alone: for every worker count W and every interleaving, each
\* counter ends as the number of rows whose results lead to that bucket
\* (no increment is lost).
C2_StatsIndependentOfSchedule ==
    Drained =>
        \A b \in Buckets :
            stats[b] = Cardinality({i \in Dispatched : BucketOfResults(i) = b})

\* a drained run with several workers in which two rows hit the same bucket
C2_Witness ==
    /\ Drained
    /\ W >= 2
    /\ \E b \in Buckets : stats[b] >= 2

\* rows that went through sampling and recorded an outcome without an
\* Exception escaping the try body
Sampled(i) ==
    /\ pc[i] = "done"
    /\ fetchRes[i] = "path"
    /\ sampleRes[i] # "none"
    /\ i \notin raised

\* C3: a row whose fetch succeeded is counted successful when all NUM_FRAMES
\* frames were written and partial when some but not all were written.
C3_BucketByWrittenCount ==
    \A i \in Rows :
        Sampled(i) =>
            /\ written[i] = NUM_FRAMES => counted[i] = <<"successful">>
            /\ (0 < written[i] /\ written[i] < NUM_FRAMES)
                  => counted[i] = <<"partial">>

\* C4: a row whose fetch succeeded but whose sampling wrote no frame (file
\* not opened, frame count not positive, extractor raised, every read
\* failed) is counted failed.
C4_ZeroWrittenIsFailed ==
    \A i \in Rows :
        (Sampled(i) /\ written[i] = 0) => counted[i] = <<"failed">>

\* C5: a row whose fetch reported failure is counted failed and has no temp
\* file on disk once it is terminal.
C5_FailedFetchLeavesNoTempFile ==
    \A i \in Rows :
        (pc[i] = "done" /\ fetchRes[i] = "None") =>
            /\ counted[i] = <<"failed">>
            /\ i \notin tempFile

\* C6: for every row whose fetch created a temp file, secure_delete_file
\* has run exactly once by the time the row's outcome is recorded, and
\* never runs more than once.
C6_CleanupExactlyOnce ==
    /\ \A i \in Rows : cleanups[i] <= 1
    /\ \A i \in created :
          pc[i] \in {"incWrite", "done"} => cleanups[i] = 1

\* C7: a row with a missing or blank URL is never submitted and never
\* counted, and at the end of the run total equals successful + partial +
\* failed and equals the number of rows with a non-blank URL.
C7_BlankRowsExcludedFromTotal ==
    /\ \A i \in 1..Len(df) :
          ~HasUrl(df[i]) => (i \notin Dispatched /\ counted[i] = <<>>)
    /\ Drained =>
          /\ stats.total = Tally
          /\ stats.total = Cardinality({i \in 1..Len(df) : HasUrl(df[i])})

Sleepers == {i \in Rows : pc[i] = "sleeping"}

\* C8: at most one worker is inside its rate-limit sleep, and that worker
\* holds LOCK.
C8_OneSleeper ==
    /\ Cardinality(Sleepers) <= 1
    /\ \A i \in Sleepers : lock = i

\* one worker sleeps under LOCK while another waits for LOCK to start its own
C8_Witness ==
    \E i, j \in Rows : pc[i] = "sleeping" /\ pc[j] = "rateLock"

\* C9: no two calls of download_video, by any workers, start less than
\* RATE_LIMIT_MIN seconds apart (so a window of T seconds holds at most
\* T / RATE_LIMIT_MIN + 1 fetch starts).
C9_FetchSpacing == minGap >= RATE_LIMIT_MIN

\* two fetches are in flight at once, the second started while the first ran
C9_Witness ==
    \E i, j \in Rows : i # j /\ pc[i] = "fetch" /\ pc[j] = "fetch"

\* C10: at most W rows are executing process_video, every other submitted
\* row is queued or terminal, and a queued row starts only when fewer than
\* W rows are executing.
C10_AtMostWExecuting ==
    /\ [](/\ Cardinality(Active) <= W
          /\ \A i \in Dispatched \ Active : pc[i] \in {"queued", "done"})
    /\ [][\A i \in Rows :
             (pc[i] = "queued" /\ pc'[i] # "queued")
                => Cardinality(Active) < W]_vars

\* every worker is busy while a submitted row still waits in the queue
C10_Witness ==
    /\ Cardinality(Active) = W
    /\ \E i \in Rows : pc[i] = "queued"

\* C11: the summary is produced only after every submitted row is
\* terminal, it reports the stats as they then are, and no stats counter
\* changes once the summary has been produced.
C11_DrainBarrier ==
    /\ [](mainpc = "finished" =>
             /\ \A i \in Dispatched : pc[i] = "done"
             /\ report = stats)
    /\ [][mainpc = "finished" => stats' = stats]_vars

\* a summary over at least two submitted rows
C11_Witness ==
    /\ mainpc = "finished"
    /\ Cardinality(Dispatched) >= 2

\* C13: when the manifest cannot be loaded or lacks a required column the
\* run aborts before any dispatch: no row is submitted or started, no fetch
\* is issued, no stats exist, and nothing at all happens afterwards (so no
\* summary either).
C13_AbortBeforeDispatch ==
    /\ [](mainpc = "aborted" =>
             /\ \A i \in Rows : pc[i] = "absent" /\ fetches[i] = 0
             /\ DOMAIN stats = {}
             /\ mainpc \notin {"drained", "finished"})
    /\ [][mainpc = "aborted" => FALSE]_vars

\* the run has aborted on a manifest error
C13_Witness == mainpc = "aborted"

\* C14: after an interrupt delivered while the scheduler waits for results,
\* no row that was still queued at that time is started on a worker, and
\* every row that was in flight has run its cleanup before the process
\* exits.
C14_InterruptStopsQueued ==
    /\ \A i \in queuedAtInterrupt : pc[i] = "queued"
    /\ mainpc = "exited" =>
          \A i \in Dispatched \ queuedAtInterrupt :
              (fetchRes[i] = "path" /\ i \notin raised) => cleanups[i] = 1

\* C16: every row goes rate-limit delay, fetch, sampling (only after a fetch
\* that returned a file), cleanup, one stats increment: a fetch starts only
\* when the row's delay has run out, sampling is never run after a failed
\* fetch, cleanup only after sampling, the increment only after the
\* fetch, and no row is fetched twice.
C16_PerItemOrder ==
    /\ [](\A i \in Rows :
             /\ fetches[i] <= 1
             /\ fetchRes[i] # "none" => fetches[i] = 1
             /\ sampleRes[i] # "none" => fetchRes[i] = "path"
             /\ cleanups[i] > 0 => sampleRes[i] # "none"
             /\ counted[i] # <<>> => fetches[i] = 1
             /\ (counted[i] # <<>> /\ fetchRes[i] = "path" /\ i \notin raised)
                   => cleanups[i] = 1)
    /\ [][\A i \in Rows :
             fetches'[i] # fetches[i]
                => (pc[i] = "sleeping" /\ remaining[i] = 0)]_vars

\* one row went through the whole pipeline and another stopped at a failed
\* fetch
C16_Witness ==
    \E i, j \in Rows :
        /\ pc[i] = "done" /\ cleanups[i] = 1 /\ sampleRes[i] = "ran"
        /\ pc[j] = "done" /\ fetchRes[j] = "None" /\ sampleRes[j] = "none"

\* C19: the delay and the stats update share LOCK: no stats counter is
\* incremented, and no worker is inside its stats update, while a worker is
\* inside its rate-limit sleep; a worker that is ready to record its outcome
\* enters the update only when nobody sleeps.
C19_StatsWaitForSleeper ==
    /\ [](\A i \in Rows : pc[i] = "incWrite" => Sleepers = {})
    /\ [][(DOMAIN stats # {} /\ stats' # stats) => Sleepers = {}]_vars
    /\ [][\A i \in Rows :
             (pc[i] = "incLock" /\ pc'[i] = "incWrite")
                => Sleepers = {}]_vars

\* a worker has its outcome ready while another worker sleeps under LOCK
C19_Witness ==
    \E i, j \in Rows : pc[i] = "sleeping" /\ pc[j] = "incLock"

\* C12: an Exception raised while processing one row is caught at the row:
\* that row is counted failed exactly once, the run is not aborted, and
\* every other submitted row still reaches its terminal state, counted once.
C12_ErrorIsolated ==
    /\ [](\A i \in raised :
             /\ Len(counted[i]) <= 1
             /\ pc[i] = "done" => counted[i] = <<"failed">>)
    /\ [](raised # {} => mainpc # "aborted")
    /\ \A j \in Rows :
          (raised # {} /\ pc[j] \in ActivePcs \cup {"queued"})
             ~> (pc[j] = "done" /\ Len(counted[j]) = 1)

\* a row whose processing raised and a row that did not are both terminal
C12_Witness ==
    \E i, j \in Rows :
        /\ i \in raised /\ pc[i] = "done"
        /\ j \notin raised /\ pc[j] = "done" /\ counted[j] # <<>>

\* C18: with a valid manifest, returning external calls and fair scheduling,
\* every submitted row eventually reaches its terminal state and the run
\* eventually logs its summary (unless the operator interrupts it): no
\* interleaving deadlocks on LOCK.
C18_RunCompletes ==
    /\ \A i \in Rows : (pc[i] = "queued") ~> (pc[i] = "done")
    /\ (mainpc = "submit")
          ~> (mainpc \in {"finished", "interrupted", "exited"})

\* a run of two rows, one of them failed, has logged its summary
C18_Witness ==
    /\ mainpc = "finished"
    /\ Cardinality(Dispatched) >= 2
    /\ report.failed >= 1

\* C15: secure_delete_file called repeatedly on one path never raises;
\* once a call has removed the file every later call finds no file and
\* returns False; a call that returns True has removed the file; and no
\* call changes the row's bucket or the stats counters.
C15_CleanupIdempotent ==
    /\ ~delRaised
    /\ \A i \in Rows :
          /\ \A k, l \in 1..Len(delRets[i]) :
                (k < l /\ delRets[i][k]) => ~delRets[i][l]
          /\ (\E k \in 1..Len(delRets[i]) : delRets[i][k]) => i \notin tempFile
          /\ mainpc = "delete" =>
                /\ Len(counted[i]) = 1
                /\ Tally = MaxRows

\* two calls on one path: the first removed the file, the second found none
C15_Witness ==
    \E i \in Rows : Len(delRets[i]) >= 2 /\ delRets[i][1] /\ ~delRets[i][2]

\* C17: for frame count F > 0 and N requested frames capture_random_frames
\* selects exactly N positions, all in 0..F-1 and in non-decreasing order;
\* if F < N they are floor(i*F/N) for i = 0..N-1 (F = 3, N = 5 gives
\* 0, 0, 1, 1, 2), otherwise they are pairwise distinct and ascending.
C17_FramePositions ==
    mainpc = "captured" =>
        /\ frameCount > 0
        /\ Len(frameIndices) = numFrames
        /\ \A k \in 1..numFrames : frameIndices[k] \in 0..(frameCount - 1)
        /\ \A k \in 1..(numFrames - 1) : frameIndices[k] <= frameIndices[k + 1]
        /\ frameCount < numFrames =>
              \A k \in 1..numFrames :
                  /\ frameIndices[k] * numFrames <= (k - 1) * frameCount
                  /\ (k - 1) * frameCount < (frameIndices[k] + 1) * numFrames
        /\ (frameCount = 3 /\ numFrames = 5) => frameIndices = <<0, 0, 1, 1, 2>>
        /\ frameCount >= numFrames =>
              \A k \in 1..(numFrames - 1) : frameIndices[k] < frameIndices[k + 1]

\* the positions chosen for 3 frames of media and 5 requested
C17_Witness ==
    /\ mainpc = "captured"
    /\ frameCount = 3
    /\ numFrames = 5

=============================================================================
